---------------------------- MODULE Spec2Model ----------------------------
(***************************************************************************)
(* EmailPro campaign engine: the campaign routes (routes/campaigns.ts),    *)
(* the campaign tick (CampaignService.processCampaign), the calendar sweep *)
(* (CampaignService.checkScheduledCampaigns), the send-email processor     *)
(* (workers/email-worker.ts) and EmailService.sendEmail with its daily     *)
(* limit and campaign statistics.                                          *)
(*                                                                         *)
(* The store (Prisma) executes each single query atomically; a handler is  *)
(* a sequence of awaited queries, and handlers interleave between awaits.  *)
(* Each handler is therefore modelled as a short sequence of steps, one    *)
(* per write or group of reads, joined by a program counter.               *)
(* The two Bull queues are bags of jobs: a delay only postpones a job, so  *)
(* delayed and waiting jobs are one bag from which any job may start.      *)
(***************************************************************************)
EXTENDS Integers, Sequences, FiniteSets, Bags, TLC

\* ----- bounds of the model
MaxRecipients == 2
MaxLogs == 2
MaxJobs == 2
MaxRequests == 3
MaxDailyLimit == 2

\* ----- program constants
EmailConcurrency == 3
CampaignConcurrency == 2
EmailAttempts == 3
CampaignAttempts == 2
maxBounceRate == 5
MinProcessedForAutoPause == 10

Campaigns == {"c1", "c2"}
Accounts == <<"a1">>
AccountIds == {Accounts[i] : i \in 1..Len(Accounts)}
RecipientIds == 1..MaxRecipients
NoCampaign == "none"

CampaignStatus ==
  {"NONE", "DRAFT", "SCHEDULED", "RUNNING", "PAUSED", "COMPLETED", "FAILED", "CANCELLED"}

VARIABLES
  campaigns,      \* campaigns table: campaign id -> row
  recipients,     \* campaign_recipients table: campaign id -> recipient id -> status
  emailLogs,      \* email_logs table: set of rows
  nextLogId,      \* ids handed out to email_logs rows so far
  smtpActive,     \* smtp_accounts.isActive
  dailyLimit,     \* smtp_accounts.dailyLimit
  smtpAccounts,   \* smtp_accounts table: the ids of the rows that exist
  recipientEmails,\* campaign_recipients.email of a campaign's rows, in insertion order
                  \* (followed in IngestSpec; elsewhere recipients are known by id only)
  dailySent,      \* daily_sending_limits.sentCount of today, per account
  emailQueue,     \* Bull 'email processing': bag of delayed/waiting jobs
  emailActive,    \* send-email jobs being processed, with the processor's position
  campaignQueue,  \* Bull 'campaign processing': bag of delayed/waiting jobs
  campaignActive, \* process-campaign jobs being processed
  requests,       \* HTTP requests and sweeps between their read and their writes
  officeHours,    \* whether the wall clock is inside [officeHoursStart, officeHoursEnd)
  delivered,      \* history: messages accepted by transporter.sendMail per recipient since the last restart
  issued,         \* number of client requests issued so far
  pools,          \* SMTPConnectionPool.pools: account id -> array of transporter ids
  transporters,   \* every PooledTransporter created so far, by id: inUse, times closed, holders
  waiters,        \* getTransporter calls polling in checkAvailability, with the array they captured
  closeAllCalls,  \* number of SMTPConnectionPool.closeAll calls so far
  metrics,        \* SMTPConnectionPool.metrics, and as history the number of getTransporter calls
  wallClock,      \* new Date(): day of the week and hour, and the Date getNextOfficeHour returned
                  \* (followed in ClockSpec; elsewhere only officeHours is)
  mail,           \* the template and recipient sendEmail loaded and what renderTemplate made of them
                  \* (followed in RenderSpec)
  tick            \* the locals of one run of processCampaign's loop and the jobs it added
                  \* (followed in TickSpec; elsewhere the loop is followed recipient by recipient)

\* The connection pool (followed in PoolSpec; nothing else reads or writes it)
poolVars == <<pools, transporters, waiters, closeAllCalls, metrics>>

\* What the campaign engine's actions leave alone: the pool, the pacing loop followed
\* with its locals, the wall clock and the rendering
sideVars == <<poolVars, tick, wallClock, mail>>

vars == <<campaigns, recipients, emailLogs, nextLogId, smtpActive, dailyLimit, poolVars, tick,
          wallClock, mail, smtpAccounts, recipientEmails, dailySent, emailQueue, emailActive,
          campaignQueue, campaignActive, requests, officeHours, delivered, issued>>

\* ----- bags
Put(bag, e) == bag (+) SetToBag({e})
Take(bag, e) == bag (-) SetToBag({e})
Size(bag) == BagCardinality(bag)

NoRow ==
  [status |-> "NONE", scheduledAt |-> "null", startedAt |-> FALSE, completedAt |-> FALSE,
   pausedAt |-> FALSE, totalRecipients |-> 0, sentCount |-> 0, failedCount |-> 0,
   bounceCount |-> 0]

\* getNextOfficeHour has not been called since the clock last moved
NoDate == [daysAhead |-> -1, hour |-> -1]

\* sendEmail has loaded no template yet
NoMail == [pc |-> "idle", template |-> [subject |-> << >>, htmlBody |-> << >>],
           recipient |-> [firstName |-> "", customData |-> {}],
           subject |-> << >>, htmlBody |-> << >>]

\* No run of processCampaign's loop is followed
NoTick ==
  [pc |-> "idle", smtpAccounts |-> << >>, delayMin |-> 0, delayMax |-> 0,
   unprocessedRecipients |-> << >>, batchSize |-> 0, i |-> 0, currentDelay |-> 0,
   emailsInCurrentBatch |-> 0, jobs |-> << >>]

Init ==
  /\ campaigns = [c \in Campaigns |-> NoRow]
  /\ recipients = [c \in Campaigns |-> [r \in RecipientIds |-> "NONE"]]
  /\ emailLogs = {}
  /\ nextLogId = 1
  /\ smtpActive = [a \in AccountIds |-> TRUE]
  /\ smtpAccounts = AccountIds
  /\ recipientEmails = [c \in Campaigns |-> << >>]
  /\ pools = [a \in AccountIds |-> << >>]
  /\ transporters = << >>
  /\ waiters = EmptyBag
  /\ closeAllCalls = 0
  /\ metrics = [totalConnections |-> 0, activeConnections |-> 0, poolHits |-> 0,
                poolMisses |-> 0, calls |-> 0]
  /\ tick = NoTick
  /\ mail = NoMail
  /\ wallClock = [day |-> 1, hour |-> 0, nextOfficeHour |-> NoDate]
  /\ dailyLimit \in [AccountIds -> 1..MaxDailyLimit]
  /\ dailySent = [a \in AccountIds |-> 0]
  /\ emailQueue = EmptyBag
  /\ emailActive = EmptyBag
  /\ campaignQueue = EmptyBag
  /\ campaignActive = EmptyBag
  /\ requests = EmptyBag
  /\ officeHours = TRUE
  /\ delivered = [c \in Campaigns |-> [r \in RecipientIds |-> 0]]
  /\ issued = 0


\* ===================================================================
\* Store queries
\* ===================================================================

Exists(c) == campaigns[c].status # "NONE"

\* prisma.smtpAccount.findMany({ where: { id: { in: smtpAccountIds }, isActive: true } }),
\* in table order
ActiveAccounts == SelectSeq(Accounts, LAMBDA a : a \in smtpAccounts /\ smtpActive[a])

\* campaign._count.recipients / prisma.campaignRecipient.count({ where: { campaignId } })
RecipientCount(c) == Cardinality({r \in RecipientIds : recipients[c][r] # "NONE"})

LogsOf(c) == {l \in emailLogs : l.campaignId = c}

\* ===================================================================
\* Queue service (services/queue.ts)
\* ===================================================================

\* queueService.addCampaignJob / CampaignService.startCampaign: campaignQueue.add('process-campaign')
addCampaignJob(q, c) == Put(q, [campaignId |-> c, attemptsMade |-> 0])

\* emailQueue.add('send-email', data, { delay })
addEmailJob(q, logId, c) == Put(q, [emailLogId |-> logId, campaignId |-> c, attemptsMade |-> 0])

QueuedJobsOf(c) == {j \in BagToSet(emailQueue) : j.campaignId = c}
ActiveJobsOf(c) == {w \in BagToSet(emailActive) : w.campaignId = c /\ ~w.removed}

\* The clean-up loop of stop and restart: for every active, waiting and delayed job of
\* the campaign, in that order, job.remove().  Bull refuses to remove a job that is
\* locked by a processor in some versions (remove() rejects, the loop is left through
\* its catch and nothing after it is removed) and removes it in others (the processor
\* keeps running; the job is gone when it returns).  lockedRemovable selects the
\* library's behaviour.
CleanupThrows(c, lockedRemovable) == ActiveJobsOf(c) # {} /\ ~lockedRemovable

CleanedQueue(c, lockedRemovable) ==
  IF CleanupThrows(c, lockedRemovable) THEN emailQueue
  ELSE [j \in (BagToSet(emailQueue) \ QueuedJobsOf(c)) |-> emailQueue[j]]

CleanedActive(c, lockedRemovable) ==
  IF CleanupThrows(c, lockedRemovable) THEN emailActive
  ELSE LET marked(w) == IF w.campaignId = c THEN [w EXCEPT !.removed = TRUE] ELSE w
           olds(w2) == {w \in BagToSet(emailActive) : marked(w) = w2}
           sum[S \in SUBSET BagToSet(emailActive)] ==
             IF S = {} THEN 0
             ELSE LET x == CHOOSE y \in S : TRUE IN emailActive[x] + sum[S \ {x}]
       IN [w2 \in {marked(w) : w \in BagToSet(emailActive)} |-> sum[olds(w2)]]

\* ===================================================================
\* Campaign routes (routes/campaigns.ts)
\* ===================================================================

Request(op, c, status, sched) ==
  [op |-> op, campaignId |-> c, pc |-> "write", status |-> status, scheduledAt |-> sched]

CanIssue == issued < MaxRequests

\* POST / : create campaign.  The accounts must all be active; the schema requires at
\* least one recipient.  The campaign row, its recipients and the process-campaign job
\* are written before the response; the job is added last.
CreateCampaign(c, n, sched) ==
  /\ CanIssue
  /\ ~Exists(c)
  /\ \A a \in AccountIds : a \in smtpAccounts /\ smtpActive[a]
  /\ LET st == IF sched = "future" THEN "SCHEDULED" ELSE "RUNNING" IN
     /\ campaigns' = [campaigns EXCEPT ![c] =
          [NoRow EXCEPT !.status = st, !.scheduledAt = sched, !.totalRecipients = n]]
     /\ recipients' = [recipients EXCEPT ![c] =
          [r \in RecipientIds |-> IF r <= n THEN "PENDING" ELSE "NONE"]]
     /\ campaignQueue' = IF st = "RUNNING" THEN addCampaignJob(campaignQueue, c) ELSE campaignQueue
  /\ issued' = issued + 1
  /\ UNCHANGED <<emailLogs, nextLogId, smtpActive, dailyLimit, sideVars, smtpAccounts,
                 recipientEmails, dailySent, emailQueue,
                 emailActive, campaignActive, requests, officeHours, delivered>>

\* POST /:id/duplicate : a DRAFT copy of the campaign with fresh PENDING recipients
DuplicateCampaign(c, d) ==
  /\ CanIssue
  /\ Exists(c)
  /\ ~Exists(d)
  /\ campaigns' = [campaigns EXCEPT ![d] =
       [NoRow EXCEPT !.status = "DRAFT", !.totalRecipients = campaigns[c].totalRecipients]]
  /\ recipients' = [recipients EXCEPT ![d] =
       [r \in RecipientIds |-> IF recipients[c][r] # "NONE" THEN "PENDING" ELSE "NONE"]]
  /\ issued' = issued + 1
  /\ UNCHANGED <<emailLogs, nextLogId, smtpActive, dailyLimit, sideVars, smtpAccounts,
                 recipientEmails, dailySent, emailQueue,
                 emailActive, campaignQueue, campaignActive, requests, officeHours, delivered>>

\* PUT /:id, up to the write: rejected for a RUNNING campaign or an inactive account
UpdateAccepts(c) ==
  /\ Exists(c)
  /\ campaigns[c].status # "RUNNING"
  /\ \A a \in AccountIds : a \in smtpAccounts /\ smtpActive[a]

UpdateCheck(c, sched) ==
  /\ CanIssue
  /\ UpdateAccepts(c)
  /\ requests' = Put(requests,
       Request("update", c, IF sched = "future" THEN "SCHEDULED" ELSE campaigns[c].status, sched))
  /\ issued' = issued + 1
  /\ UNCHANGED <<campaigns, recipients, emailLogs, nextLogId, smtpActive, dailyLimit, sideVars,
                 smtpAccounts, recipientEmails, dailySent,
                 emailQueue, emailActive, campaignQueue, campaignActive, officeHours, delivered>>

\* PUT /:id, prisma.campaign.update: writes the status computed from the row read before
UpdateWrite(q) ==
  /\ q.op = "update"
  /\ campaigns' = [campaigns EXCEPT ![q.campaignId].status = q.status,
                                    ![q.campaignId].scheduledAt = q.scheduledAt]
  /\ requests' = Take(requests, q)
  /\ UNCHANGED <<recipients, emailLogs, nextLogId, smtpActive, dailyLimit, sideVars,
                 smtpAccounts, recipientEmails, dailySent,
                 emailQueue, emailActive, campaignQueue, campaignActive, officeHours,
                 delivered, issued>>

\* POST /:id/start, the validation: the status list of the route, recipients, active accounts
\* The start route's test as it would be if it let a RUNNING campaign through.
\* RefusedCallsWriteNothing must tell the two apart.
StartAcceptsRunningToo(c) ==
  /\ Exists(c)
  /\ campaigns[c].status \in {"PENDING", "PAUSED", "SCHEDULED", "RUNNING"}
  /\ RecipientCount(c) # 0
  /\ Len(ActiveAccounts) # 0

StartAccepts(c) ==
  /\ Exists(c)
  /\ campaigns[c].status \in {"PENDING", "PAUSED", "SCHEDULED"}
  /\ RecipientCount(c) # 0
  /\ Len(ActiveAccounts) # 0

StartCheck(c) ==
  /\ CanIssue
  /\ StartAccepts(c)
  /\ requests' = Put(requests, Request("start", c, campaigns[c].status, "null"))
  /\ issued' = issued + 1
  /\ UNCHANGED <<campaigns, recipients, emailLogs, nextLogId, smtpActive, dailyLimit, sideVars,
                 smtpAccounts, recipientEmails, dailySent,
                 emailQueue, emailActive, campaignQueue, campaignActive, officeHours, delivered>>

\* POST /:id/start, prisma.campaign.update; no job is added (the route's TODO)
StartWrite(q) ==
  /\ q.op = "start"
  /\ campaigns' = [campaigns EXCEPT ![q.campaignId].status = "RUNNING",
                                    ![q.campaignId].startedAt = TRUE,
                                    ![q.campaignId].pausedAt = FALSE]
  /\ requests' = Take(requests, q)
  /\ UNCHANGED <<recipients, emailLogs, nextLogId, smtpActive, dailyLimit, sideVars,
                 smtpAccounts, recipientEmails, dailySent,
                 emailQueue, emailActive, campaignQueue, campaignActive, officeHours,
                 delivered, issued>>

\* POST /:id/pause
PauseAccepts(c) == Exists(c) /\ campaigns[c].status = "RUNNING"

PauseCheck(c) ==
  /\ CanIssue
  /\ PauseAccepts(c)
  /\ requests' = Put(requests, Request("pause", c, campaigns[c].status, "null"))
  /\ issued' = issued + 1
  /\ UNCHANGED <<campaigns, recipients, emailLogs, nextLogId, smtpActive, dailyLimit, sideVars,
                 smtpAccounts, recipientEmails, dailySent,
                 emailQueue, emailActive, campaignQueue, campaignActive, officeHours, delivered>>

\* POST /:id/pause, prisma.campaign.update: the route touches neither queue nor email_logs
PauseWrite(q) ==
  /\ q.op = "pause"
  /\ campaigns' = [campaigns EXCEPT ![q.campaignId].status = "PAUSED",
                                    ![q.campaignId].pausedAt = TRUE]
  /\ requests' = Take(requests, q)
  /\ UNCHANGED <<recipients, emailLogs, nextLogId, smtpActive, dailyLimit, sideVars,
                 smtpAccounts, recipientEmails, dailySent,
                 emailQueue, emailActive, campaignQueue, campaignActive, officeHours,
                 delivered, issued>>

\* POST /:id/resume
ResumeAccepts(c) == Exists(c) /\ campaigns[c].status = "PAUSED"

ResumeCheck(c) ==
  /\ CanIssue
  /\ ResumeAccepts(c)
  /\ requests' = Put(requests, Request("resume", c, campaigns[c].status, "null"))
  /\ issued' = issued + 1
  /\ UNCHANGED <<campaigns, recipients, emailLogs, nextLogId, smtpActive, dailyLimit, sideVars,
                 smtpAccounts, recipientEmails, dailySent,
                 emailQueue, emailActive, campaignQueue, campaignActive, officeHours, delivered>>

\* POST /:id/resume, prisma.campaign.update and queueService.addCampaignJob
ResumeWrite(q) ==
  /\ q.op = "resume"
  /\ campaigns' = [campaigns EXCEPT ![q.campaignId].status = "RUNNING",
                                    ![q.campaignId].pausedAt = FALSE]
  /\ campaignQueue' = addCampaignJob(campaignQueue, q.campaignId)
  /\ requests' = Take(requests, q)
  /\ UNCHANGED <<recipients, emailLogs, nextLogId, smtpActive, dailyLimit, sideVars,
                 smtpAccounts, recipientEmails, dailySent,
                 emailQueue, emailActive, campaignActive, officeHours, delivered, issued>>

\* POST /:id/stop
StopAccepts(c) == Exists(c) /\ campaigns[c].status \in {"RUNNING", "PAUSED", "SCHEDULED"}

StopCheck(c) ==
  /\ CanIssue
  /\ StopAccepts(c)
  /\ requests' = Put(requests, Request("stop", c, campaigns[c].status, "null"))
  /\ issued' = issued + 1
  /\ UNCHANGED <<campaigns, recipients, emailLogs, nextLogId, smtpActive, dailyLimit, sideVars,
                 smtpAccounts, recipientEmails, dailySent,
                 emailQueue, emailActive, campaignQueue, campaignActive, officeHours, delivered>>

\* POST /:id/stop, the clean-up of the campaign's email jobs and prisma.campaign.update
StopWrite(q, lockedRemovable) ==
  /\ q.op = "stop"
  /\ emailQueue' = CleanedQueue(q.campaignId, lockedRemovable)
  /\ emailActive' = CleanedActive(q.campaignId, lockedRemovable)
  /\ campaigns' = [campaigns EXCEPT ![q.campaignId].status = "CANCELLED",
                                    ![q.campaignId].completedAt = TRUE]
  /\ requests' = Take(requests, q)
  /\ UNCHANGED <<recipients, emailLogs, nextLogId, smtpActive, dailyLimit, sideVars,
                 smtpAccounts, recipientEmails, dailySent,
                 campaignQueue, campaignActive, officeHours, delivered, issued>>

\* POST /:id/restart
RestartAccepts(c) == Exists(c) /\ campaigns[c].status \in {"COMPLETED", "FAILED", "PAUSED"}

RestartCheck(c) ==
  /\ CanIssue
  /\ RestartAccepts(c)
  /\ requests' = Put(requests, [Request("restart", c, campaigns[c].status, "null") EXCEPT !.pc = "reset"])
  /\ issued' = issued + 1
  /\ UNCHANGED <<campaigns, recipients, emailLogs, nextLogId, smtpActive, dailyLimit, sideVars,
                 smtpAccounts, recipientEmails, dailySent,
                 emailQueue, emailActive, campaignQueue, campaignActive, officeHours, delivered>>

\* POST /:id/restart, prisma.campaign.update and prisma.campaignRecipient.updateMany.
\* A recipient is only ever PENDING or QUEUED when a tick reads it, and the tick treats
\* both alike, so the two writes are one step.  A new restart cycle starts here.
RestartReset(q) ==
  /\ q.op = "restart" /\ q.pc = "reset"
  /\ campaigns' = [campaigns EXCEPT ![q.campaignId].status = "RUNNING",
                                    ![q.campaignId].startedAt = TRUE,
                                    ![q.campaignId].completedAt = FALSE,
                                    ![q.campaignId].sentCount = 0,
                                    ![q.campaignId].failedCount = 0]
  /\ recipients' = [recipients EXCEPT ![q.campaignId] =
       [r \in RecipientIds |-> IF recipients[q.campaignId][r] # "NONE" THEN "PENDING" ELSE "NONE"]]
  /\ delivered' = [delivered EXCEPT ![q.campaignId] = [r \in RecipientIds |-> 0]]
  /\ requests' = Put(Take(requests, q), [q EXCEPT !.pc = "write"])
  /\ UNCHANGED <<emailLogs, nextLogId, smtpActive, dailyLimit, sideVars, smtpAccounts,
                 recipientEmails, dailySent, emailQueue,
                 emailActive, campaignQueue, campaignActive, officeHours, issued>>

\* POST /:id/restart, the clean-up of the campaign's email jobs,
\* prisma.emailLog.deleteMany and queueService.addCampaignJob
RestartWrite(q, lockedRemovable) ==
  /\ q.op = "restart" /\ q.pc = "write"
  /\ emailQueue' = CleanedQueue(q.campaignId, lockedRemovable)
  /\ emailActive' = CleanedActive(q.campaignId, lockedRemovable)
  /\ emailLogs' = emailLogs \ LogsOf(q.campaignId)
  /\ campaignQueue' = addCampaignJob(campaignQueue, q.campaignId)
  /\ requests' = Take(requests, q)
  /\ UNCHANGED <<campaigns, recipients, nextLogId, smtpActive, dailyLimit, sideVars,
                 smtpAccounts, recipientEmails, dailySent,
                 campaignActive, officeHours, delivered, issued>>

\* PATCH /smtp/:id/toggle
ToggleSmtp(a) ==
  /\ CanIssue
  /\ smtpActive' = [smtpActive EXCEPT ![a] = ~smtpActive[a]]
  /\ issued' = issued + 1
  /\ UNCHANGED <<campaigns, recipients, emailLogs, nextLogId, dailyLimit, sideVars,
                 smtpAccounts, recipientEmails, dailySent, emailQueue,
                 emailActive, campaignQueue, campaignActive, requests, officeHours, delivered>>

\* ===================================================================
\* The wall clock
\* ===================================================================

\* The hour enters or leaves the office-hours window (EmailService.isOfficeHours)
ClockOfficeHours ==
  /\ officeHours' = ~officeHours
  /\ UNCHANGED <<campaigns, recipients, emailLogs, nextLogId, smtpActive, dailyLimit, sideVars,
                 smtpAccounts, recipientEmails, dailySent,
                 emailQueue, emailActive, campaignQueue, campaignActive, requests, delivered, issued>>

\* now passes a campaign's scheduledAt
ClockDue(c) ==
  /\ campaigns[c].scheduledAt = "future"
  /\ campaigns' = [campaigns EXCEPT ![c].scheduledAt = "past"]
  /\ UNCHANGED <<recipients, emailLogs, nextLogId, smtpActive, dailyLimit, sideVars,
                 smtpAccounts, recipientEmails, dailySent, emailQueue,
                 emailActive, campaignQueue, campaignActive, requests, officeHours, delivered, issued>>

\* ===================================================================
\* Calendar sweep (CampaignService.checkScheduledCampaigns, every minute,
\* in the server process and in the worker process)
\* ===================================================================
Sweepers == 2

SweepsInFlight == {q \in BagToSet(requests) : q.op = "sweep"}

\* prisma.campaign.findMany({ where: { status: 'SCHEDULED', scheduledAt: { lte: now } } })
SweepFinds(c) == campaigns[c].status = "SCHEDULED" /\ campaigns[c].scheduledAt = "past"

SweepRead(c) ==
  /\ SweepFinds(c)
  /\ Size([q \in SweepsInFlight |-> requests[q]]) < Sweepers
  /\ requests' = Put(requests, Request("sweep", c, campaigns[c].status, "null"))
  /\ UNCHANGED <<campaigns, recipients, emailLogs, nextLogId, smtpActive, dailyLimit, sideVars,
                 smtpAccounts, recipientEmails, dailySent,
                 emailQueue, emailActive, campaignQueue, campaignActive, officeHours,
                 delivered, issued>>

\* The loop body for one campaign found: FAILED without an active account or without
\* recipients, else RUNNING and a process-campaign job
SweepWrite(q) ==
  /\ q.op = "sweep"
  /\ LET c == q.campaignId
         ok == Len(ActiveAccounts) # 0 /\ RecipientCount(c) # 0 IN
     /\ campaigns' = IF ok
          THEN [campaigns EXCEPT ![c].status = "RUNNING", ![c].startedAt = TRUE]
          ELSE [campaigns EXCEPT ![c].status = "FAILED"]
     /\ campaignQueue' = IF ok THEN addCampaignJob(campaignQueue, c) ELSE campaignQueue
  /\ requests' = Take(requests, q)
  /\ UNCHANGED <<recipients, emailLogs, nextLogId, smtpActive, dailyLimit, sideVars,
                 smtpAccounts, recipientEmails, dailySent,
                 emailQueue, emailActive, campaignActive, officeHours, delivered, issued>>

\* ===================================================================
\* Campaign tick (process-campaign processor, CampaignService.processCampaign)
\* ===================================================================

JobsInFlight == Size(emailQueue) + Size(emailActive)

\* A processor that threw: Bull retries the job until attempts are used up
RetriedCampaignJob(q, j) ==
  IF j.attemptsMade + 1 < CampaignAttempts
  THEN Put(q, [campaignId |-> j.campaignId, attemptsMade |-> j.attemptsMade + 1])
  ELSE q

\* findMany({ where: { campaignId, status: { in: ['PENDING', 'QUEUED'] } }, orderBy: createdAt })
unprocessedRecipients(c) ==
  SelectSeq([r \in RecipientIds |-> r], LAMBDA r : recipients[c][r] \in {"PENDING", "QUEUED"})

processedCount(c) == Cardinality({r \in RecipientIds : recipients[c][r] \in {"SENT", "FAILED"}})

\* Bull takes a process-campaign job (at most CampaignConcurrency run at once) and
\* processCampaign runs up to its loop: the status test, the active accounts, the
\* unprocessed recipients.  Nothing observes a job between its start and these reads.
\* Without an active account the campaign is set FAILED (before the throw and again in
\* the catch) and the job fails.
processCampaign(j) ==
  /\ j \in BagToSet(campaignQueue)
  /\ Size(campaignActive) < CampaignConcurrency
  /\ LET c == j.campaignId
         rest == Take(campaignQueue, j) IN
     IF campaigns[c].status # "RUNNING"
     THEN /\ campaignQueue' = rest
          /\ UNCHANGED <<campaigns, campaignActive>>
     ELSE IF Len(ActiveAccounts) = 0
     THEN /\ campaigns' = [campaigns EXCEPT ![c].status = "FAILED", ![c].completedAt = TRUE]
          /\ campaignQueue' = RetriedCampaignJob(rest, j)
          /\ UNCHANGED campaignActive
     ELSE IF Len(unprocessedRecipients(c)) = 0
     THEN /\ campaigns' = IF processedCount(c) >= RecipientCount(c)
                          THEN [campaigns EXCEPT ![c].status = "COMPLETED", ![c].completedAt = TRUE]
                          ELSE campaigns
          /\ campaignQueue' = rest
          /\ UNCHANGED campaignActive
     ELSE /\ campaignQueue' = rest
          /\ campaignActive' = Put(campaignActive,
               [campaignId |-> c, todo |-> unprocessedRecipients(c), smtp |-> ActiveAccounts[1]])
          /\ UNCHANGED campaigns
  /\ UNCHANGED <<recipients, emailLogs, nextLogId, smtpActive, dailyLimit, sideVars,
                 smtpAccounts, recipientEmails, dailySent,
                 emailQueue, emailActive, requests, officeHours, delivered, issued>>

\* One iteration of the loop: prisma.emailLog.create (QUEUED), emailQueue.add with the
\* campaign id in the job data, prisma.campaignRecipient.update (QUEUED)
processCampaignStep(t) ==
  /\ t \in BagToSet(campaignActive)
  /\ nextLogId <= MaxLogs
  /\ JobsInFlight < MaxJobs
  /\ LET c == t.campaignId
         r == Head(t.todo)
         rest == Take(campaignActive, t) IN
     /\ emailLogs' = emailLogs \cup
          {[id |-> nextLogId, campaignId |-> c, recipientId |-> r,
            smtpAccountId |-> t.smtp, status |-> "QUEUED"]}
     /\ nextLogId' = nextLogId + 1
     /\ emailQueue' = addEmailJob(emailQueue, nextLogId, c)
     /\ recipients' = [recipients EXCEPT ![c][r] = "QUEUED"]
     /\ campaignActive' = IF Len(t.todo) = 1 THEN rest
                          ELSE Put(rest, [t EXCEPT !.todo = Tail(t.todo)])
  /\ UNCHANGED <<campaigns, smtpActive, dailyLimit, sideVars, smtpAccounts, recipientEmails,
                 dailySent, emailActive, campaignQueue,
                 requests, officeHours, delivered, issued>>

\* ===================================================================
\* Email sender (send-email processor, EmailService.sendEmail)
\* ===================================================================

NoLog == [id |-> 0, campaignId |-> NoCampaign, recipientId |-> 0,
          smtpAccountId |-> Accounts[1], status |-> "NONE"]

\* prisma.emailLog.findUnique({ where: { id } })
FindLog(id) == IF \E l \in emailLogs : l.id = id
               THEN CHOOSE l \in emailLogs : l.id = id
               ELSE NoLog

\* prisma.emailLog.update({ where: { id }, data: { status } })
UpdateLog(id, st) ==
  {IF l.id = id THEN [l EXCEPT !.status = st] ELSE l : l \in emailLogs}

\* The processor threw: Bull retries the job (exponential backoff) until EmailAttempts
\* attempts were made; a job removed meanwhile is not retried
RetriedEmailJob(q, w) ==
  IF ~w.removed /\ w.attemptsMade + 1 < EmailAttempts
  THEN Put(q, [emailLogId |-> w.emailLogId, campaignId |-> w.campaignId,
               attemptsMade |-> w.attemptsMade + 1])
  ELSE q

\* EmailService.checkDailyLimit: a read of today's counter
checkDailyLimit(a) == dailySent[a] < dailyLimit[a]

\* EmailService.updateDailyLimit: upsert with sentCount increment 1
updateDailyLimit(a) == [dailySent EXCEPT ![a] = @ + 1]

\* EmailService.isOfficeHours
isOfficeHours == officeHours

\* The status test of sendEmail on the row it read
AlreadyProcessed(l) == l.status # "PENDING" /\ l.status # "QUEUED"

\* sendEmailLoad as it would be if the processor rethrew 'Email log or related data
\* not found' like any other error: Bull would keep the job for another attempt.
\* StaleJobDropped must tell the two apart.
sendEmailLoadRetryingStale(j) ==
  /\ j \in BagToSet(emailQueue)
  /\ Size(emailActive) < EmailConcurrency
  /\ LET l == FindLog(j.emailLogId)
         rest == Take(emailQueue, j)
         w == [emailLogId |-> j.emailLogId, campaignId |-> j.campaignId,
               attemptsMade |-> j.attemptsMade, removed |-> FALSE, pc |-> "send",
               log |-> l, type |-> "sent", done |-> FALSE, pause |-> FALSE,
               startedIn |-> campaigns[l.campaignId].status] IN
     IF l = NoLog
     THEN /\ emailQueue' = IF j.attemptsMade + 1 < EmailAttempts
                           THEN Put(rest, [j EXCEPT !.attemptsMade = @ + 1])
                           ELSE rest
          /\ UNCHANGED <<emailLogs, emailActive>>
     ELSE IF AlreadyProcessed(l)
     THEN /\ emailQueue' = RetriedEmailJob(rest, w)
          /\ UNCHANGED <<emailLogs, emailActive>>
     ELSE IF ~checkDailyLimit(l.smtpAccountId)
     THEN /\ emailLogs' = UpdateLog(l.id, "FAILED")
          /\ emailQueue' = RetriedEmailJob(rest, w)
          /\ UNCHANGED emailActive
     ELSE IF ~isOfficeHours
     THEN /\ JobsInFlight < MaxJobs
          /\ emailQueue' = RetriedEmailJob(addEmailJob(rest, l.id, NoCampaign), w)
          /\ UNCHANGED <<emailLogs, emailActive>>
     ELSE /\ emailQueue' = rest
          /\ emailActive' = Put(emailActive, w)
          /\ UNCHANGED emailLogs
  /\ UNCHANGED <<campaigns, recipients, nextLogId, smtpActive, dailyLimit, sideVars,
                 smtpAccounts, recipientEmails, dailySent,
                 campaignQueue, campaignActive, requests, officeHours, delivered, issued>>

\* sendEmailLoad as it would be without the "already sent or failed" test of sendEmail:
\* a job whose log is SENT or FAILED would go on to the transport.
\* ProcessedLogRunIsNoOp must tell the two apart.
sendEmailLoadWithoutStatusTest(j) ==
  /\ j \in BagToSet(emailQueue)
  /\ Size(emailActive) < EmailConcurrency
  /\ LET l == FindLog(j.emailLogId)
         rest == Take(emailQueue, j)
         w == [emailLogId |-> j.emailLogId, campaignId |-> j.campaignId,
               attemptsMade |-> j.attemptsMade, removed |-> FALSE, pc |-> "send",
               log |-> l, type |-> "sent", done |-> FALSE, pause |-> FALSE,
               startedIn |-> campaigns[l.campaignId].status] IN
     IF l = NoLog
     THEN /\ emailQueue' = rest
          /\ UNCHANGED <<emailLogs, emailActive>>
     ELSE IF ~checkDailyLimit(l.smtpAccountId)
     THEN /\ emailLogs' = UpdateLog(l.id, "FAILED")
          /\ emailQueue' = RetriedEmailJob(rest, w)
          /\ UNCHANGED emailActive
     ELSE IF ~isOfficeHours
     THEN /\ JobsInFlight < MaxJobs
          /\ emailQueue' = RetriedEmailJob(addEmailJob(rest, l.id, NoCampaign), w)
          /\ UNCHANGED <<emailLogs, emailActive>>
     ELSE /\ emailQueue' = rest
          /\ emailActive' = Put(emailActive, w)
          /\ UNCHANGED emailLogs
  /\ UNCHANGED <<campaigns, recipients, nextLogId, smtpActive, dailyLimit, sideVars,
                 smtpAccounts, recipientEmails, dailySent,
                 campaignQueue, campaignActive, requests, officeHours, delivered, issued>>

\* Bull takes a waiting or delayed send-email job (at most EmailConcurrency run at once)
\* and sendEmail runs from its findUnique to the office-hours test:
\*  - no email log: the processor returns without a retry;
\*  - status not PENDING/QUEUED: { success: false }, the processor throws;
\*  - daily limit reached: the log is set FAILED (the campaign counters are not
\*    touched), { success: false }, the processor throws;
\*  - outside office hours: a new job { emailLogId } is added (its data holds no
\*    campaign id), { success: false }, the processor throws;
\*  - else the message is rendered and handed to the transport.
\* The campaign's status is not read; startedIn records, as history, the status the
\* campaign had when the job started.
sendEmailLoad(j) ==
  /\ j \in BagToSet(emailQueue)
  /\ Size(emailActive) < EmailConcurrency
  /\ LET l == FindLog(j.emailLogId)
         rest == Take(emailQueue, j)
         w == [emailLogId |-> j.emailLogId, campaignId |-> j.campaignId,
               attemptsMade |-> j.attemptsMade, removed |-> FALSE, pc |-> "send",
               log |-> l, type |-> "sent", done |-> FALSE, pause |-> FALSE,
               startedIn |-> campaigns[l.campaignId].status] IN
     IF l = NoLog
     THEN /\ emailQueue' = rest
          /\ UNCHANGED <<emailLogs, emailActive>>
     ELSE IF AlreadyProcessed(l)
     THEN /\ emailQueue' = RetriedEmailJob(rest, w)
          /\ UNCHANGED <<emailLogs, emailActive>>
     ELSE IF ~checkDailyLimit(l.smtpAccountId)
     THEN /\ emailLogs' = UpdateLog(l.id, "FAILED")
          /\ emailQueue' = RetriedEmailJob(rest, w)
          /\ UNCHANGED emailActive
     ELSE IF ~isOfficeHours
     THEN /\ JobsInFlight < MaxJobs
          /\ emailQueue' = RetriedEmailJob(addEmailJob(rest, l.id, NoCampaign), w)
          /\ UNCHANGED <<emailLogs, emailActive>>
     ELSE /\ emailQueue' = rest
          /\ emailActive' = Put(emailActive, w)
          /\ UNCHANGED emailLogs
  /\ UNCHANGED <<campaigns, recipients, nextLogId, smtpActive, dailyLimit, sideVars,
                 smtpAccounts, recipientEmails, dailySent,
                 campaignQueue, campaignActive, requests, officeHours, delivered, issued>>

\* bounceRate of updateCampaignStats, compared with maxBounceRate without the division:
\* bounceCount / totalProcessed * 100 > maxBounceRate
bounceRateExceeds(bounceCount, totalProcessed) ==
  totalProcessed > 0 /\ bounceCount * 100 > maxBounceRate * totalProcessed

\* EmailService.updateCampaignStats, the increment: prisma.campaign.update with
\* { increment: 1 }, returning the row the two tests are computed from
updateCampaignStats(row, type) ==
  IF type = "sent" THEN [row EXCEPT !.sentCount = @ + 1]
                   ELSE [row EXCEPT !.failedCount = @ + 1]

\* "Check if campaign is complete"
IsComplete(row) == row.sentCount + row.failedCount >= row.totalRecipients

\* "Auto-pause if bounce rate is too high"
IsAutoPause(row) ==
  /\ bounceRateExceeds(row.bounceCount, row.sentCount + row.failedCount)
  /\ row.sentCount + row.failedCount >= MinProcessedForAutoPause

\* The status updateCampaignStats writes: COMPLETED when the counters reached
\* totalRecipients, then PAUSED when the bounce rate is too high
StatusAfterStats(st, done, pause) ==
  IF pause THEN "PAUSED" ELSE IF done THEN "COMPLETED" ELSE st

\* The end of sendEmail: after a send updateDailyLimit and { success: true } (the job
\* completes); after a failure the rethrow (the job fails)
Finish(w, type) ==
  /\ dailySent' = IF type = "sent" THEN updateDailyLimit(w.log.smtpAccountId) ELSE dailySent
  /\ emailQueue' = IF type = "sent" THEN emailQueue ELSE RetriedEmailJob(emailQueue, w)
  /\ emailActive' = Take(emailActive, w)

\* What transporter.sendMail can do with a message: accept it, or throw with an error
\* text that names a permanent failure ("550 user unknown") or a transient one
Outcomes == {"accepted", "hard", "soft"}

\* transporter.sendMail and the recording of its outcome: the transport accepts the
\* message (the log is set SENT, sentCount is incremented) or throws (the catch block
\* sets the log FAILED and increments failedCount; it stores the error text and does
\* nothing else with it, so both kinds of error are recorded alike).  When the row is gone the update
\* throws, the catch finds no row, and the job fails.  The campaign's status is written
\* in a later step when the counters call for it.
sendEmailSend(w, outcome) ==
  /\ w \in BagToSet(emailActive)
  /\ w.pc = "send"
  /\ LET c == w.log.campaignId
         accepted == outcome = "accepted"
         type == IF accepted THEN "sent" ELSE "failed"
         row == updateCampaignStats(campaigns[c], type)
         w2 == [w EXCEPT !.type = type, !.done = IsComplete(row), !.pause = IsAutoPause(row),
                         !.pc = "complete"] IN
     /\ delivered' = IF accepted THEN [delivered EXCEPT ![c][w.log.recipientId] = @ + 1]
                     ELSE delivered
     /\ IF FindLog(w.emailLogId) = NoLog
        THEN /\ emailActive' = Take(emailActive, w)
             /\ emailQueue' = RetriedEmailJob(emailQueue, w)
             /\ UNCHANGED <<emailLogs, campaigns, dailySent>>
        ELSE /\ emailLogs' = UpdateLog(w.emailLogId, IF accepted THEN "SENT" ELSE "FAILED")
             /\ campaigns' = [campaigns EXCEPT ![c] = row]
             /\ IF w2.done \/ w2.pause
                THEN /\ emailActive' = Put(Take(emailActive, w), w2)
                     /\ UNCHANGED <<emailQueue, dailySent>>
                ELSE Finish(w, type)
  /\ UNCHANGED <<recipients, nextLogId, smtpActive, dailyLimit, sideVars, smtpAccounts,
                 recipientEmails, campaignQueue,
                 campaignActive, requests, officeHours, issued>>

\* EmailService.updateCampaignStats, the status writes, and the end of sendEmail
sendEmailComplete(w) ==
  /\ w \in BagToSet(emailActive)
  /\ w.pc = "complete"
  /\ LET c == w.log.campaignId IN
     campaigns' = [campaigns EXCEPT
        ![c].status = StatusAfterStats(@, w.done, w.pause),
        ![c].completedAt = IF w.done THEN TRUE ELSE @,
        ![c].pausedAt = IF w.pause THEN TRUE ELSE @]
  /\ Finish(w, w.type)
  /\ UNCHANGED <<recipients, emailLogs, nextLogId, smtpActive, dailyLimit, sideVars,
                 smtpAccounts, recipientEmails, campaignQueue,
                 campaignActive, requests, officeHours, delivered, issued>>

\* ===================================================================
\* The system
\* ===================================================================

Next ==
  \/ \E n \in 1..MaxRecipients, sched \in {"null", "future"} : CreateCampaign("c1", n, sched)
  \/ DuplicateCampaign("c1", "c2")
  \/ \E c \in Campaigns, sched \in {"null", "future"} : UpdateCheck(c, sched)
  \/ \E c \in Campaigns : StartCheck(c)
  \/ \E c \in Campaigns : PauseCheck(c)
  \/ \E c \in Campaigns : ResumeCheck(c)
  \/ \E c \in Campaigns : StopCheck(c)
  \/ \E c \in Campaigns : RestartCheck(c)
  \/ \E q \in BagToSet(requests) : UpdateWrite(q)
  \/ \E q \in BagToSet(requests) : StartWrite(q)
  \/ \E q \in BagToSet(requests) : PauseWrite(q)
  \/ \E q \in BagToSet(requests) : ResumeWrite(q)
  \/ \E q \in BagToSet(requests), lockedRemovable \in BOOLEAN : StopWrite(q, lockedRemovable)
  \/ \E q \in BagToSet(requests) : RestartReset(q)
  \/ \E q \in BagToSet(requests), lockedRemovable \in BOOLEAN : RestartWrite(q, lockedRemovable)
  \/ \E a \in AccountIds : ToggleSmtp(a)
  \/ \E c \in Campaigns : ClockDue(c)
  \/ \E c \in Campaigns : SweepRead(c)
  \/ \E q \in BagToSet(requests) : SweepWrite(q)
  \/ \E j \in BagToSet(campaignQueue) : processCampaign(j)
  \/ \E t \in BagToSet(campaignActive) : processCampaignStep(t)
  \/ \E j \in BagToSet(emailQueue) : sendEmailLoad(j)
  \/ \E w \in BagToSet(emailActive), outcome \in Outcomes : sendEmailSend(w, outcome)
  \/ \E w \in BagToSet(emailActive) : sendEmailComplete(w)

\* The system inside office hours: every route, the clock passing scheduledAt, the
\* sweep and the two processors
Spec == Init /\ [][Next]_vars

\* The two processors on their own
Workers ==
  \/ \E j \in BagToSet(campaignQueue) : processCampaign(j)
  \/ \E t \in BagToSet(campaignActive) : processCampaignStep(t)
  \/ \E j \in BagToSet(emailQueue) : sendEmailLoad(j)
  \/ \E w \in BagToSet(emailActive), outcome \in Outcomes : sendEmailSend(w, outcome)
  \/ \E w \in BagToSet(emailActive) : sendEmailComplete(w)

\* A campaign created to run at once and then left alone: it is never paused, stopped,
\* restarted or edited, and its account stays active
UndisturbedNext ==
  \/ \E n \in 1..MaxRecipients : CreateCampaign("c1", n, "null")
  \/ Workers

\* Bull hands every waiting job to a processor, the loop of a tick goes on, and
\* transporter.sendMail returns or throws: each step of the processors that stays
\* possible is eventually taken
Fairness ==
  /\ WF_vars(\E j \in BagToSet(campaignQueue) : processCampaign(j))
  /\ WF_vars(\E t \in BagToSet(campaignActive) : processCampaignStep(t))
  /\ WF_vars(\E j \in BagToSet(emailQueue) : sendEmailLoad(j))
  /\ WF_vars(\E w \in BagToSet(emailActive), outcome \in Outcomes : sendEmailSend(w, outcome))
  /\ WF_vars(\E w \in BagToSet(emailActive) : sendEmailComplete(w))

FairSpec == Init /\ [][UndisturbedNext]_vars /\ Fairness

\* The same campaign while the wall clock enters and leaves office hours
OfficeNext ==
  \/ \E n \in 1..MaxRecipients : CreateCampaign("c1", n, "null")
  \/ ClockOfficeHours
  \/ Workers

OfficeSpec == Init /\ [][OfficeNext]_vars

\* ===================================================================
\* Claims
\* ===================================================================

\* C1: at-most-once delivery.  For every campaign and every recipient, within one
\* restart cycle transporter.sendMail accepts at most one message for the recipient.
AtMostOnceDelivery ==
  \A c \in Campaigns, r \in RecipientIds : delivered[c][r] <= 1

\* C2: in every reachable state sentCount + failedCount <= totalRecipients.
CountersWithinTotal ==
  \A c \in Campaigns :
    campaigns[c].sentCount + campaigns[c].failedCount <= campaigns[c].totalRecipients

\* C3: today's counter of an SMTP account never exceeds the account's dailyLimit,
\* also when several send-email workers check and consume the quota concurrently.
DailyQuotaWithinLimit ==
  \A a \in AccountIds : dailySent[a] <= dailyLimit[a]

\* C4: once a campaign is PAUSED or CANCELLED its pending send-email jobs are
\* cancelled, and no send-email job that starts afterwards moves an email log of the
\* campaign from QUEUED to SENT.
PendingJobsCancelled ==
  \A c \in Campaigns :
    campaigns[c].status \in {"PAUSED", "CANCELLED"} => QueuedJobsOf(c) = {}

NoSendStartedAfterwards ==
  \A w \in BagToSet(emailActive) :
    (/\ w.startedIn \in {"PAUSED", "CANCELLED"}
     /\ CopiesIn(w, emailActive') < CopiesIn(w, emailActive)
     /\ FindLog(w.emailLogId).status = "QUEUED")
    => \A l \in emailLogs' : l.id = w.emailLogId => l.status # "SENT"

PausedOrCancelledStopsSending ==
  []PendingJobsCancelled /\ [][NoSendStartedAfterwards]_vars

\* C5: every status change of a campaign made by start, pause, resume, stop, restart,
\* the calendar sweep, the tick or a send recording its outcome is a transition of the
\* state-machine table from the status the campaign has at the moment of the write; an
\* operation whose source status no longer holds does not write.  (The table is read
\* generously: the sweep's SCHEDULED -> FAILED is counted as a transition of it.)
Transitions ==
  {<<"DRAFT", "SCHEDULED">>, <<"DRAFT", "RUNNING">>, <<"SCHEDULED", "RUNNING">>,
   <<"PAUSED", "RUNNING">>, <<"RUNNING", "PAUSED">>,
   <<"RUNNING", "CANCELLED">>, <<"PAUSED", "CANCELLED">>, <<"SCHEDULED", "CANCELLED">>,
   <<"RUNNING", "COMPLETED">>, <<"RUNNING", "FAILED">>, <<"SCHEDULED", "FAILED">>,
   <<"COMPLETED", "RUNNING">>, <<"FAILED", "RUNNING">>}

StatusStepInTable ==
  \A c \in Campaigns :
    \/ campaigns'[c].status = campaigns[c].status
    \/ campaigns[c].status = "NONE"
    \/ <<campaigns[c].status, campaigns'[c].status>> \in Transitions

StatusChangesAreCompareAndSet ==
  [][(\E q \in BagToSet(requests) : UpdateWrite(q))
     \/ StatusStepInTable]_vars

\* C6: CANCELLED is absorbing: once a campaign is CANCELLED no operation changes its
\* status again.
CancelledIsAbsorbing ==
  [][\A c \in Campaigns :
       campaigns[c].status = "CANCELLED" => campaigns'[c].status = "CANCELLED"]_vars

\* C7: under fair scheduling of the queues a RUNNING campaign with an active SMTP
\* account that is never paused, stopped or restarted eventually reaches COMPLETED, and
\* a COMPLETED campaign has sentCount + failedCount = totalRecipients.
ProgressToCompletion ==
  /\ \A c \in Campaigns :
       (campaigns[c].status = "RUNNING") ~> (campaigns[c].status = "COMPLETED")
  /\ [](\A c \in Campaigns :
         campaigns[c].status = "COMPLETED" =>
           campaigns[c].sentCount + campaigns[c].failedCount = campaigns[c].totalRecipients)

\* C8: whenever a campaign is COMPLETED, every one of its recipients is SENT or FAILED.
CompletedMeansAllRecipientsDone ==
  \A c \in Campaigns :
    campaigns[c].status = "COMPLETED" =>
      \A r \in RecipientIds : recipients[c][r] \in {"NONE", "SENT", "FAILED"}

\* C9: between two restarts each recipient of a campaign has at most one email log.
OneLogPerRecipient ==
  \A c \in Campaigns, r \in RecipientIds :
    Cardinality({l \in emailLogs : l.campaignId = c /\ l.recipientId = r}) <= 1

\* C10: the start route accepts a campaign exactly when its status is DRAFT, SCHEDULED
\* or PAUSED and it has at least one recipient and one active SMTP account.
StartAcceptsExactlyDraftScheduledPaused ==
  \A c \in Campaigns :
    Exists(c) =>
      (StartAccepts(c) <=>
         /\ campaigns[c].status \in {"DRAFT", "SCHEDULED", "PAUSED"}
         /\ RecipientCount(c) # 0
         /\ Len(ActiveAccounts) # 0)

\* C11: every successful start enqueues a process-campaign job for the campaign: the
\* step in which the start route writes RUNNING adds one job to the campaign queue.
TickOf(c) == [campaignId |-> c, attemptsMade |-> 0]

StartEnqueuesTick ==
  [][\A q \in BagToSet(requests) :
       StartWrite(q) =>
         CopiesIn(TickOf(q.campaignId), campaignQueue') =
           CopiesIn(TickOf(q.campaignId), campaignQueue) + 1]_vars

\* C12: once stop has completed the campaign is CANCELLED with completedAt set, and no
\* waiting or delayed send-email job of the campaign is in the queue (a job belongs to
\* the campaign of its data or of its email log).
JobsBelongingTo(c) ==
  {j \in BagToSet(emailQueue) : j.campaignId = c \/ FindLog(j.emailLogId).campaignId = c}

StopLeavesNoJobs ==
  \A c \in Campaigns :
    campaigns[c].status = "CANCELLED" =>
      campaigns[c].completedAt /\ JobsBelongingTo(c) = {}

\* C13: when restart has completed, every recipient of the campaign is PENDING, the
\* campaign has no email log, sentCount = failedCount = bounceCount = 0, the status is
\* RUNNING and one process-campaign job was added.
RestartedState(c) ==
  /\ \A r \in RecipientIds : recipients'[c][r] \in {"NONE", "PENDING"}
  /\ \A l \in emailLogs' : l.campaignId # c
  /\ campaigns'[c].sentCount = 0
  /\ campaigns'[c].failedCount = 0
  /\ campaigns'[c].bounceCount = 0
  /\ campaigns'[c].status = "RUNNING"
  /\ CopiesIn(TickOf(c), campaignQueue') = CopiesIn(TickOf(c), campaignQueue) + 1

RestartResetsCampaign ==
  [][\A q \in BagToSet(requests), lockedRemovable \in BOOLEAN :
       RestartWrite(q, lockedRemovable) => RestartedState(q.campaignId)]_vars

\* C14: restart is one step for the workers: while a restart has zeroed the counters and
\* has not yet added its process-campaign job, no message of the campaign is handed
\* to the transport and sentCount and failedCount stay zero.
RestartInProgress(c) ==
  \E q \in BagToSet(requests) : q.op = "restart" /\ q.pc = "write" /\ q.campaignId = c

RestartIsAtomic ==
  \A c \in Campaigns :
    RestartInProgress(c) =>
      /\ campaigns[c].sentCount = 0
      /\ campaigns[c].failedCount = 0
      /\ \A r \in RecipientIds : delivered[c][r] = 0

\* ===================================================================
\* The counters of one large campaign
\* ===================================================================

\* The recipients of the campaign whose counters StatsSpec follows
StatsRecipients == 20

\* The campaign after create and its process-campaign job: RUNNING, every recipient
\* with a queued send-email job.  Only the campaign row is followed; its recipients,
\* logs and jobs are not represented.
StatsInit ==
  /\ campaigns = [c \in Campaigns |->
       IF c = "c1" THEN [NoRow EXCEPT !.status = "RUNNING", !.startedAt = TRUE,
                                      !.totalRecipients = StatsRecipients]
       ELSE NoRow]
  /\ recipients = [c \in Campaigns |-> [r \in RecipientIds |-> "NONE"]]
  /\ emailLogs = {}
  /\ nextLogId = 1
  /\ smtpActive = [a \in AccountIds |-> TRUE]
  /\ smtpAccounts = AccountIds
  /\ recipientEmails = [c \in Campaigns |-> << >>]
  /\ pools = [a \in AccountIds |-> << >>]
  /\ transporters = << >>
  /\ waiters = EmptyBag
  /\ closeAllCalls = 0
  /\ metrics = [totalConnections |-> 0, activeConnections |-> 0, poolHits |-> 0,
                poolMisses |-> 0, calls |-> 0]
  /\ tick = NoTick
  /\ mail = NoMail
  /\ wallClock = [day |-> 1, hour |-> 0, nextOfficeHour |-> NoDate]
  /\ dailyLimit \in [AccountIds -> 1..MaxDailyLimit]
  /\ dailySent = [a \in AccountIds |-> 0]
  /\ emailQueue = EmptyBag
  /\ emailActive = EmptyBag
  /\ campaignQueue = EmptyBag
  /\ campaignActive = EmptyBag
  /\ requests = EmptyBag
  /\ officeHours = TRUE
  /\ delivered = [c \in Campaigns |-> [r \in RecipientIds |-> 0]]
  /\ issued = 0

\* One send-email job of the campaign reaches transporter.sendMail and sendEmail records
\* the outcome through updateCampaignStats: the increment, then COMPLETED when the
\* counters reached totalRecipients, then PAUSED when the bounce rate is too high.
sendEmailStats(c, outcome) ==
  /\ Exists(c)
  /\ campaigns[c].sentCount + campaigns[c].failedCount < campaigns[c].totalRecipients
  /\ LET row == updateCampaignStats(campaigns[c], IF outcome = "accepted" THEN "sent" ELSE "failed") IN
     campaigns' = [campaigns EXCEPT ![c] =
       [row EXCEPT !.status = StatusAfterStats(@, IsComplete(row), IsAutoPause(row)),
                   !.completedAt = IF IsComplete(row) THEN TRUE ELSE @,
                   !.pausedAt = IF IsAutoPause(row) THEN TRUE ELSE @]]
  /\ UNCHANGED <<recipients, emailLogs, nextLogId, smtpActive, dailyLimit, sideVars,
                 smtpAccounts, recipientEmails, dailySent,
                 emailQueue, emailActive, campaignQueue, campaignActive, requests,
                 officeHours, delivered, issued>>

\* Every transport error in this specification is a permanent one ("user unknown")
StatsNext ==
  \/ sendEmailStats("c1", "accepted")
  \/ sendEmailStats("c1", "hard")

StatsSpec == StatsInit /\ [][StatsNext]_vars

\* C15: after a recorded outcome, when at least 10 attempts have completed and the share
\* of permanent failures among them exceeds maxBounceRate, the campaign is PAUSED
\* (in StatsSpec every failure is a permanent one, so failedCount counts them).
AutoPauseOnHighBounceRate ==
  \A c \in Campaigns :
    LET totalProcessed == campaigns[c].sentCount + campaigns[c].failedCount IN
    (/\ totalProcessed >= MinProcessedForAutoPause
     /\ totalProcessed < campaigns[c].totalRecipients
     /\ campaigns[c].failedCount * 100 > maxBounceRate * totalProcessed)
      => campaigns[c].status = "PAUSED"

\* C16: a send that fails with a permanent transport error ("550 user unknown") leaves
\* the email log FAILED and increases the campaign's bounceCount by exactly one.
HardBounceCounted ==
  [][\A w \in BagToSet(emailActive) :
       (sendEmailSend(w, "hard") /\ FindLog(w.emailLogId) # NoLog) =>
         /\ \E l \in emailLogs' : l.id = w.emailLogId /\ l.status = "FAILED"
         /\ campaigns'[w.log.campaignId].bounceCount =
              campaigns[w.log.campaignId].bounceCount + 1]_vars

\* C17: a send that fails with a transient transport error before its last attempt
\* (fewer than 3 attempts made) is tried again: the step leaves the email log
\* unfinished and failedCount as it was; only the last failed attempt sets FAILED.
SoftFailureRetriedBeforeFailed ==
  [][\A w \in BagToSet(emailActive) :
       (/\ sendEmailSend(w, "soft")
        /\ FindLog(w.emailLogId) # NoLog
        /\ w.attemptsMade + 1 < EmailAttempts) =>
         /\ \A l \in emailLogs' : l.id = w.emailLogId => l.status # "FAILED"
         /\ campaigns'[w.log.campaignId].failedCount =
              campaigns[w.log.campaignId].failedCount]_vars

\* C18: when a send-email job finds the daily quota of its log's account exhausted, the
\* log becomes FAILED, the campaign's failedCount grows by one, and the job is not
\* kept for another attempt.
QuotaRefusal(j) ==
  /\ sendEmailLoad(j)
  /\ FindLog(j.emailLogId) # NoLog
  /\ ~AlreadyProcessed(FindLog(j.emailLogId))
  /\ ~checkDailyLimit(FindLog(j.emailLogId).smtpAccountId)

QuotaExhaustedCountsAsFailed ==
  [][\A j \in BagToSet(emailQueue) :
       QuotaRefusal(j) =>
         LET c == FindLog(j.emailLogId).campaignId IN
         /\ \E l \in emailLogs' : l.id = j.emailLogId /\ l.status = "FAILED"
         /\ campaigns'[c].failedCount = campaigns[c].failedCount + 1
         /\ \A k \in BagToSet(emailQueue') : k.emailLogId # j.emailLogId]_vars

\* C19: when a send-email job runs outside office hours, whatever the quota of the
\* account: the email log stays as it was, no campaign counter and no daily quota
\* changes, nothing is handed to the transport, and a job for the log is waiting again.
OutOfWindowRun(j) ==
  /\ sendEmailLoad(j)
  /\ FindLog(j.emailLogId) # NoLog
  /\ ~AlreadyProcessed(FindLog(j.emailLogId))
  /\ ~isOfficeHours

OutOfWindowOnlyReschedules ==
  [][\A j \in BagToSet(emailQueue) :
       OutOfWindowRun(j) =>
         /\ emailLogs' = emailLogs
         /\ campaigns' = campaigns
         /\ dailySent' = dailySent
         /\ delivered' = delivered
         /\ emailActive' = emailActive
         /\ \E k \in BagToSet(emailQueue') : k.emailLogId = j.emailLogId]_vars

\* C20: a send-email job that finds its email log gone terminates without changing any
\* email log, recipient, campaign row or quota, hands nothing to the transport, and
\* leaves the queue for good (it is not kept for another attempt).
StaleJob(j) == FindLog(j.emailLogId) = NoLog

StaleJobDropped ==
  [][\A j \in BagToSet(emailQueue) :
       (sendEmailLoad(j) /\ StaleJob(j)) =>
         /\ emailQueue' = Take(emailQueue, j)
         /\ UNCHANGED <<emailLogs, recipients, campaigns, dailySent, emailActive, delivered>>]_vars

\* A stale job is waiting and a processor slot is free, so the job is run
StaleJobWaiting ==
  \E j \in BagToSet(emailQueue) : StaleJob(j) /\ Size(emailActive) < EmailConcurrency

\* C21: running a send-email job whose email log is already SENT or FAILED changes
\* nothing: no message goes to the transport, and the email logs, the recipients, the
\* campaign rows and the daily quota are as before.
ProcessedLogRun(j) ==
  /\ sendEmailLoad(j)
  /\ FindLog(j.emailLogId) # NoLog
  /\ AlreadyProcessed(FindLog(j.emailLogId))

ProcessedLogRunIsNoOp ==
  [][\A j \in BagToSet(emailQueue) :
       ProcessedLogRun(j) =>
         UNCHANGED <<emailLogs, recipients, campaigns, dailySent, emailActive, delivered>>]_vars

\* A job whose log is already SENT or FAILED is waiting and a processor slot is free
ProcessedLogJobWaiting ==
  \E j \in BagToSet(emailQueue) :
    /\ FindLog(j.emailLogId) # NoLog
    /\ AlreadyProcessed(FindLog(j.emailLogId))
    /\ Size(emailActive) < EmailConcurrency

\* C22: start on a RUNNING campaign and pause on a PAUSED campaign change nothing: the
\* handler answers 400 after its read, so no start request that read RUNNING and no
\* pause request that read PAUSED ever reaches the handler's write.
RefusedCallsWriteNothing ==
  \A q \in BagToSet(requests) :
    /\ ~(q.op = "start" /\ q.status = "RUNNING")
    /\ ~(q.op = "pause" /\ q.status = "PAUSED")

\* A campaign is RUNNING while a call can still arrive, and start refuses it
StartCallOnRunning ==
  \E c \in Campaigns : campaigns[c].status = "RUNNING" /\ CanIssue /\ ~StartAccepts(c)

\* C23: restart twice in a row ends as restart once: when a restart has completed, a
\* second restart is refused (the campaign is no longer COMPLETED, FAILED or PAUSED),
\* so it adds no second process-campaign job and resets nothing.
RestartTwiceSameAsOnce ==
  [][\A q \in BagToSet(requests), lockedRemovable \in BOOLEAN :
       RestartWrite(q, lockedRemovable) =>
         campaigns'[q.campaignId].status \notin {"COMPLETED", "FAILED", "PAUSED"}]_vars

\* ===================================================================
\* Deleting a campaign's recipients (routes/recipients.ts)
\* ===================================================================

\* DELETE /campaign/:campaignId/recipients: refused only for a RUNNING campaign
DeleteRecipientsAccepts(c) == Exists(c) /\ campaigns[c].status # "RUNNING"

DeleteRecipientsCheck(c) ==
  /\ CanIssue
  /\ DeleteRecipientsAccepts(c)
  /\ requests' = Put(requests, Request("deleteRecipients", c, campaigns[c].status, "null"))
  /\ issued' = issued + 1
  /\ UNCHANGED <<campaigns, recipients, emailLogs, nextLogId, smtpActive, dailyLimit, sideVars,
                 smtpAccounts, recipientEmails, dailySent,
                 emailQueue, emailActive, campaignQueue, campaignActive, officeHours, delivered>>

\* prisma.campaignRecipient.deleteMany (the email logs of the recipients go with them,
\* ON DELETE CASCADE) and the prisma.campaign.update that zeroes totalRecipients and
\* the counters.  The status is not written and no job is removed.
DeleteRecipientsWrite(q) ==
  /\ q.op = "deleteRecipients"
  /\ recipients' = [recipients EXCEPT ![q.campaignId] = [r \in RecipientIds |-> "NONE"]]
  /\ emailLogs' = emailLogs \ LogsOf(q.campaignId)
  /\ campaigns' = [campaigns EXCEPT ![q.campaignId].totalRecipients = 0,
                                    ![q.campaignId].sentCount = 0,
                                    ![q.campaignId].failedCount = 0,
                                    ![q.campaignId].bounceCount = 0]
  /\ requests' = Take(requests, q)
  /\ UNCHANGED <<nextLogId, smtpActive, dailyLimit, sideVars, smtpAccounts, recipientEmails,
                 dailySent, emailQueue, emailActive,
                 campaignQueue, campaignActive, officeHours, delivered, issued>>

\* Create, pause, resume, restart, the deletion of recipients, and the workers
RecipientsNext ==
  \/ \E n \in 1..MaxRecipients : CreateCampaign("c1", n, "null")
  \/ \E c \in Campaigns : PauseCheck(c)
  \/ \E q \in BagToSet(requests) : PauseWrite(q)
  \/ \E c \in Campaigns : ResumeCheck(c)
  \/ \E q \in BagToSet(requests) : ResumeWrite(q)
  \/ \E c \in Campaigns : RestartCheck(c)
  \/ \E q \in BagToSet(requests) : RestartReset(q)
  \/ \E q \in BagToSet(requests), lockedRemovable \in BOOLEAN : RestartWrite(q, lockedRemovable)
  \/ \E c \in Campaigns : DeleteRecipientsCheck(c)
  \/ \E q \in BagToSet(requests) : DeleteRecipientsWrite(q)
  \/ Workers

RecipientsSpec == Init /\ [][RecipientsNext]_vars

\* C24: a campaign with no recipients is never RUNNING.
RunningHasRecipients ==
  \A c \in Campaigns : campaigns[c].status = "RUNNING" => RecipientCount(c) # 0

\* C25: whenever no send is in flight, for every SMTP account the number of email logs
\* with status SENT on the account equals the account's daily counter (the model
\* covers one day).
SentLogsOn(a) == {l \in emailLogs : l.status = "SENT" /\ l.smtpAccountId = a}

SentLogsMatchDailyQuota ==
  emailActive = EmptyBag =>
    \A a \in AccountIds : Cardinality(SentLogsOn(a)) = dailySent[a]

\* ===================================================================
\* Deleting an SMTP account (DELETE /smtp/:id)
\* ===================================================================

\* The statuses the route's findMany looks for; every campaign of the model uses
\* every account
DeleteSmtpAccepts(a) ==
  /\ a \in smtpAccounts
  /\ \A c \in Campaigns : campaigns[c].status \notin {"PENDING", "SCHEDULED", "RUNNING", "PAUSED"}

\* prisma.smtpAccount.delete: the account's email logs and daily counters go with it
\* (ON DELETE CASCADE)
DeleteSmtp(a) ==
  /\ CanIssue
  /\ DeleteSmtpAccepts(a)
  /\ smtpAccounts' = smtpAccounts \ {a}
  /\ emailLogs' = {l \in emailLogs : l.smtpAccountId # a}
  /\ dailySent' = [dailySent EXCEPT ![a] = 0]
  /\ issued' = issued + 1
  /\ UNCHANGED <<campaigns, recipients, nextLogId, smtpActive, dailyLimit, sideVars,
                 recipientEmails,
                 emailQueue, emailActive, campaignQueue, campaignActive, requests,
                 officeHours, delivered>>

\* Create, duplicate, the deletion of an account, and the workers
SmtpNext ==
  \/ \E n \in 1..MaxRecipients, sched \in {"null", "future"} : CreateCampaign("c1", n, sched)
  \/ DuplicateCampaign("c1", "c2")
  \/ \E a \in AccountIds : DeleteSmtp(a)
  \/ Workers

SmtpSpec == Init /\ [][SmtpNext]_vars

\* C26: an SMTP account is not deleted while a campaign in a non-terminal status (DRAFT,
\* SCHEDULED, RUNNING or PAUSED) uses it.
NonTerminal == {"DRAFT", "SCHEDULED", "RUNNING", "PAUSED"}

SmtpDeleteRefusedWhileReferenced ==
  [][\A a \in AccountIds :
       DeleteSmtp(a) => \A c \in Campaigns : campaigns[c].status \notin NonTerminal]_vars

\* ===================================================================
\* The recipients of a new campaign (POST /, recipients.map and createMany)
\* ===================================================================

\* An address is a sequence of characters; the addresses of a request body
MaxEmailLen == 3
Chars == {"a", "A", "b"}
Emails == UNION {[1..n -> Chars] : n \in 1..MaxEmailLen}
RecipientInputs == UNION {[1..n -> Emails] : n \in 1..MaxRecipients}

\* String.prototype.toLowerCase on the characters of the model
toLowerCase(email) ==
  [i \in 1..Len(email) |-> IF email[i] = "A" THEN "a" ELSE email[i]]

\* recipients.map(...): one row per element of the request's array, the address
\* lowercased; nothing is dropped
recipientData(input) == [i \in 1..Len(input) |-> toLowerCase(input[i])]

\* POST / with the addresses of its recipients in view: the campaign row with
\* totalRecipients = recipients.length, the rows of createMany, and the
\* process-campaign job
createCampaignRecipients(c, input) ==
  /\ CanIssue
  /\ ~Exists(c)
  /\ \A a \in AccountIds : a \in smtpAccounts /\ smtpActive[a]
  /\ campaigns' = [campaigns EXCEPT ![c] =
       [NoRow EXCEPT !.status = "RUNNING", !.totalRecipients = Len(input)]]
  /\ recipients' = [recipients EXCEPT ![c] =
       [r \in RecipientIds |-> IF r <= Len(input) THEN "PENDING" ELSE "NONE"]]
  /\ recipientEmails' = [recipientEmails EXCEPT ![c] = recipientData(input)]
  /\ campaignQueue' = addCampaignJob(campaignQueue, c)
  /\ issued' = issued + 1
  /\ UNCHANGED <<emailLogs, nextLogId, smtpActive, dailyLimit, sideVars, smtpAccounts, dailySent,
                 emailQueue, emailActive, campaignActive, requests, officeHours, delivered>>

IngestNext == \E input \in RecipientInputs : createCampaignRecipients("c1", input)

IngestSpec == Init /\ [][IngestNext]_vars

\* C27: after create, the addresses stored for the campaign are pairwise distinct and
\* totalRecipients is the number of rows inserted.
StoredRecipientsDistinct ==
  \A c \in Campaigns :
    Exists(c) =>
      /\ \A i, j \in 1..Len(recipientEmails[c]) :
           i # j => recipientEmails[c][i] # recipientEmails[c][j]
      /\ campaigns[c].totalRecipients = Len(recipientEmails[c])

\* ===================================================================
\* The SMTP connection pool (SMTPConnectionPool in services/email.ts)
\* ===================================================================

\* config.smtpPool.maxPoolSize
maxPoolSize == 5

MaxTransporters == 6
MaxWaiters == 1
MaxCloseAll == 2
MaxCalls == 7
MaxUnheldReleases == 1

\* Everything but the pool
restVars == <<campaigns, recipients, emailLogs, nextLogId, smtpActive, dailyLimit, tick,
              wallClock, mail, smtpAccounts,
              recipientEmails, dailySent, emailQueue, emailActive, campaignQueue,
              campaignActive, requests, officeHours, delivered, issued>>

\* Everything but the pool and the pacing loop
restVarsButTick == <<campaigns, recipients, emailLogs, nextLogId, smtpActive, dailyLimit,
                     wallClock, mail,
                     smtpAccounts, recipientEmails, dailySent, emailQueue, emailActive,
                     campaignQueue, campaignActive, requests, officeHours, delivered, issued>>

\* Everything but the pool, the pacing loop and the wall clock
restVarsButClock == <<campaigns, recipients, emailLogs, nextLogId, smtpActive, dailyLimit, mail,
                      smtpAccounts, recipientEmails, dailySent, emailQueue, emailActive,
                      campaignQueue, campaignActive, requests, officeHours, delivered, issued>>

\* Everything but the pool, the pacing loop, the wall clock and the rendering
restVarsButMail == <<campaigns, recipients, emailLogs, nextLogId, smtpActive, dailyLimit,
                     smtpAccounts, recipientEmails, dailySent, emailQueue, emailActive,
                     campaignQueue, campaignActive, requests, officeHours, delivered, issued>>

\* The ids of the transporters in an array of PooledTransporter
InArray(pool) == {pool[i] : i \in 1..Len(pool)}

\* pool.find(p => !p.inUse): the first entry not in use, 0 when there is none
FindAvailable(pool) ==
  LET free == {i \in 1..Len(pool) : ~transporters[pool[i]].inUse} IN
  IF free = {} THEN 0 ELSE pool[CHOOSE i \in free : \A k \in free : i <= k]

\* Handing out as it would be if the entry were not marked in use.
\* NoSharedTransporter must tell the two apart.
HandOutWithoutMarking(t) ==
  transporters' = [transporters EXCEPT ![t].holders = @ + 1]

\* available.inUse = true, and the transporter is returned to the caller
HandOut(t) ==
  transporters' = [transporters EXCEPT ![t].inUse = TRUE, ![t].holders = @ + 1]

\* getTransporter: an entry not in use is handed out; else a transporter is created
\* while the array is shorter than maxPoolSize; else the call starts polling the
\* array it read (the closure of checkAvailability keeps that array)
getTransporter(a) ==
  /\ metrics.calls < MaxCalls
  /\ LET pool == pools[a]
         available == FindAvailable(pool) IN
     IF available # 0
     THEN /\ HandOut(available)
          /\ metrics' = [metrics EXCEPT !.poolHits = @ + 1, !.activeConnections = @ + 1,
                                        !.calls = @ + 1]
          /\ UNCHANGED <<pools, waiters>>
     ELSE IF Len(pool) < maxPoolSize
     THEN /\ Len(transporters) < MaxTransporters
          /\ transporters' = Append(transporters,
               [inUse |-> TRUE, closed |-> 0, holders |-> 1, smtpAccountId |-> a])
          /\ pools' = [pools EXCEPT ![a] = Append(pool, Len(transporters) + 1)]
          /\ metrics' = [metrics EXCEPT !.poolMisses = @ + 1, !.totalConnections = @ + 1,
                                        !.activeConnections = @ + 1, !.calls = @ + 1]
          /\ UNCHANGED waiters
     ELSE /\ Size(waiters) < MaxWaiters
          /\ waiters' = Put(waiters, [smtpAccountId |-> a, pool |-> pool])
          /\ metrics' = [metrics EXCEPT !.poolMisses = @ + 1, !.calls = @ + 1]
          /\ UNCHANGED <<pools, transporters>>
  /\ UNCHANGED <<closeAllCalls, restVars>>

\* checkAvailability, a poll that finds an entry not in use in the array the call
\* captured (a poll that finds none changes nothing and sets the next timer)
checkAvailability(w) ==
  /\ w \in BagToSet(waiters)
  /\ FindAvailable(w.pool) # 0
  /\ HandOut(FindAvailable(w.pool))
  /\ waiters' = Take(waiters, w)
  /\ metrics' = [metrics EXCEPT !.poolHits = @ + 1, !.activeConnections = @ + 1]
  /\ UNCHANGED <<pools, closeAllCalls, restVars>>

\* releaseTransporter, by a caller that holds t or for a transporter nobody holds:
\* when the account's current array holds the transporter, inUse is cleared and
\* activeConnections is decremented, whatever inUse was; else nothing is written
releaseTransporter(t) ==
  /\ t \in 1..Len(transporters)
  /\ transporters[t].holders = 0 => metrics.activeConnections > -MaxUnheldReleases
  /\ LET pooled == t \in InArray(pools[transporters[t].smtpAccountId]) IN
     /\ transporters' = [transporters EXCEPT
          ![t].holders = IF @ > 0 THEN @ - 1 ELSE 0,
          ![t].inUse = IF pooled THEN FALSE ELSE @]
     /\ metrics' = IF pooled THEN [metrics EXCEPT !.activeConnections = @ - 1] ELSE metrics
  /\ UNCHANGED <<pools, waiters, closeAllCalls, restVars>>

\* cleanupIdleConnections (the timer closeAll clears): the entries not in use whose
\* lastUsed is older than idleTimeout are closed and every array is replaced by the
\* filtered copy.  reaped is the set of entries that are that old.
cleanupIdleConnections(reaped) ==
  /\ closeAllCalls = 0
  /\ reaped # {}
  /\ \A t \in reaped : \E a \in AccountIds : t \in InArray(pools[a]) /\ ~transporters[t].inUse
  /\ transporters' = [t \in 1..Len(transporters) |->
       IF t \in reaped THEN [transporters[t] EXCEPT !.closed = @ + 1] ELSE transporters[t]]
  /\ pools' = [a \in AccountIds |-> SelectSeq(pools[a], LAMBDA t : t \notin reaped)]
  /\ metrics' = [metrics EXCEPT !.totalConnections = @ - Cardinality(reaped)]
  /\ UNCHANGED <<waiters, closeAllCalls, restVars>>

\* closeAll as it would be without this.pools.clear(): a second call would close
\* the same transporters again.  ClosedExactlyOnce must tell the two apart.
closeAllWithoutClear ==
  /\ closeAllCalls < MaxCloseAll
  /\ transporters' = [t \in 1..Len(transporters) |->
       IF \E a \in AccountIds : t \in InArray(pools[a])
       THEN [transporters[t] EXCEPT !.closed = @ + 1] ELSE transporters[t]]
  /\ closeAllCalls' = closeAllCalls + 1
  /\ UNCHANGED <<pools, waiters, metrics, restVars>>

\* closeAll: every transporter in the map is closed and the map is cleared
closeAll ==
  /\ closeAllCalls < MaxCloseAll
  /\ transporters' = [t \in 1..Len(transporters) |->
       IF \E a \in AccountIds : t \in InArray(pools[a])
       THEN [transporters[t] EXCEPT !.closed = @ + 1] ELSE transporters[t]]
  /\ pools' = [a \in AccountIds |-> << >>]
  /\ closeAllCalls' = closeAllCalls + 1
  /\ UNCHANGED <<waiters, metrics, restVars>>

PoolNext ==
  \/ \E a \in AccountIds : getTransporter(a)
  \/ \E w \in BagToSet(waiters) : checkAvailability(w)
  \/ \E t \in 1..Len(transporters) : releaseTransporter(t)
  \/ \E reaped \in SUBSET (1..Len(transporters)) : cleanupIdleConnections(reaped)
  \/ closeAll

PoolSpec == Init /\ [][PoolNext]_vars

\* C28: for every account, the number of transporters handed out and not yet
\* released never exceeds maxPoolSize, over every interleaving of acquire, blocked
\* acquire, release and idle reaping (before any shutdown).
CheckedOut(a) ==
  LET of == {t \in 1..Len(transporters) : transporters[t].smtpAccountId = a}
      count[S \in SUBSET of] ==
        IF S = {} THEN 0
        ELSE LET t == CHOOSE x \in S : TRUE IN transporters[t].holders + count[S \ {t}]
  IN count[of]

CheckedOutWithinPoolSize ==
  closeAllCalls = 0 => \A a \in AccountIds : CheckedOut(a) <= maxPoolSize

\* C29: no transporter is held by two callers at once: between the call that received
\* it and that caller's release, no other call, immediate or polling, receives it.
NoSharedTransporter ==
  \A t \in 1..Len(transporters) : transporters[t].holders <= 1

\* The pool is full, a call is polling, and one holder has just released: the polling
\* call is about to receive the released transporter while the others are still held
WaiterAboutToReceive ==
  \E w \in BagToSet(waiters) :
    /\ FindAvailable(w.pool) # 0
    /\ \E t \in InArray(w.pool) : transporters[t].holders = 1

\* C30: every transporter the pool opened is closed exactly once: no step closes a
\* transporter a second time (one closed by idle reaping is not closed again by
\* closeAll, and a second closeAll closes nothing that was closed), and when closeAll
\* has run no transporter opened so far is left unclosed.
ClosedExactlyOnce ==
  [][/\ \A t \in 1..Len(transporters') : transporters'[t].closed <= 1
     /\ closeAll => \A t \in 1..Len(transporters') : transporters'[t].closed = 1]_vars

\* closeAll has run twice over a pool that had opened several transporters, one of
\* them still held by a caller
ShutDownTwice ==
  /\ closeAllCalls = 2
  /\ Len(transporters) >= 2
  /\ \A t \in 1..Len(transporters) : transporters[t].closed = 1
  /\ \E t \in 1..Len(transporters) : transporters[t].holders = 1

\* ===================================================================
\* The calendar sweep, the send-email queue and the recorded outcomes
\* ===================================================================

\* C31: the calendar sweep promotes a campaign only while it is SCHEDULED: a sweep's
\* write that finds its campaign no longer SCHEDULED (promoted by an overlapping sweep,
\* or stopped since the sweep's read) changes neither the campaign row nor the campaign
\* queue, so each due campaign is promoted once, gets one campaign-tick, and a stopped
\* one stays CANCELLED.
SweepPromotesExactlyOnce ==
  [][\A q \in SweepsInFlight :
       (SweepWrite(q) /\ campaigns[q.campaignId].status # "SCHEDULED")
         => UNCHANGED <<campaigns, campaignQueue>>]_vars

\* The send-email jobs (delayed, waiting or active) that carry an EmailLog's id
JobsOfLog(id) ==
  LET queued == {j \in BagToSet(emailQueue) : j.emailLogId = id}
      active == {w \in BagToSet(emailActive) : w.emailLogId = id} IN
  Size([j \in queued |-> emailQueue[j]]) + Size([w \in active |-> emailActive[w]])

\* C32: at any time there is at most one send-email job (delayed, waiting or active) per
\* EmailLog; an office-hours reschedule and the queue's retries never leave two.
OneJobPerEmailLog == \A id \in 1..MaxLogs : JobsOfLog(id) <= 1

LogsIn(c, st) == {l \in LogsOf(c) : l.status = st}

\* C33: outcomes are recorded atomically: whenever no send is in flight, a campaign's
\* sentCount is the number of its EmailLogs in status SENT, its failedCount the number
\* in status FAILED, and the recipient of a SENT or FAILED log has that same status.
OutcomesRecordedAtomically ==
  emailActive = EmptyBag =>
    \A c \in Campaigns :
      /\ campaigns[c].sentCount = Cardinality(LogsIn(c, "SENT"))
      /\ campaigns[c].failedCount = Cardinality(LogsIn(c, "FAILED"))
      /\ \A l \in LogsIn(c, "SENT") \cup LogsIn(c, "FAILED") :
           recipients[c][l.recipientId] = l.status

\* ===================================================================
\* The pacing loop of a campaign tick (CampaignService.processCampaign, the loop over
\* unprocessedRecipients), followed with its locals.  Delays are in seconds.
\* ===================================================================
MaxTickRecipients == 5
MaxDelay == 2
MaxBatchSize == 2

\* What findMany({ id: { in: smtpAccountIds }, isActive: true }) can return for a
\* campaign with one or two SMTP accounts
TickAccountLists == {<<"a1">>, <<"a2">>, <<"a1", "a2">>}

\* config.emailLimits.batchBreakDuration, here longer than any per-message delay
batchBreakDuration == MaxDelay + 1

\* processCampaign up to its loop: the active accounts, the unprocessed recipients in
\* createdAt order, currentDelay = 0, emailsInCurrentBatch = 0, and batchSize drawn
\* once by getRandomBatchSize.  delayMin and delayMax are those of smtpAccounts[0].
processCampaignPacing(accs, dmin, dmax, n, b) ==
  /\ tick.pc = "idle"
  /\ dmin <= dmax
  /\ tick' = [pc |-> "loop", smtpAccounts |-> accs, delayMin |-> dmin, delayMax |-> dmax,
              unprocessedRecipients |-> [k \in 1..n |-> k], batchSize |-> b, i |-> 0,
              currentDelay |-> 0, emailsInCurrentBatch |-> 0, jobs |-> << >>]
  /\ UNCHANGED <<poolVars, restVarsButTick>>

\* The loop body as it would be without the test i < unprocessedRecipients.length - 1:
\* the last recipient could get the batch break.
processCampaignLoopBreakingAtLast(d) ==
  /\ tick.pc = "loop"
  /\ d \in tick.delayMin..tick.delayMax
  /\ LET n == Len(tick.unprocessedRecipients)
         break == tick.emailsInCurrentBatch >= tick.batchSize
         emailDelay == IF break THEN batchBreakDuration ELSE d
         selectedSmtp == tick.smtpAccounts[1] IN
     /\ break => d = tick.delayMin
     /\ tick' = [tick EXCEPT
          !.jobs = Append(@, [emailLogId |-> tick.i + 1,
                              recipientId |-> tick.unprocessedRecipients[tick.i + 1],
                              smtpAccountId |-> selectedSmtp,
                              delay |-> tick.currentDelay + emailDelay]),
          !.currentDelay = @ + emailDelay,
          !.emailsInCurrentBatch = IF break THEN 0 ELSE @ + 1,
          !.i = @ + 1,
          !.pc = IF tick.i + 1 = n THEN "done" ELSE "loop"]
  /\ UNCHANGED <<poolVars, restVarsButTick>>

\* One iteration of the loop: prisma.emailLog.create with selectedSmtp = smtpAccounts[0];
\* the batch break when emailsInCurrentBatch >= batchSize and this is not the last
\* recipient, else a delay drawn by getRandomDelay(delayMin, delayMax) (d);
\* currentDelay += emailDelay; emailQueue.add with { delay: currentDelay }.
processCampaignLoop(d) ==
  /\ tick.pc = "loop"
  /\ d \in tick.delayMin..tick.delayMax
  /\ LET n == Len(tick.unprocessedRecipients)
         break == tick.emailsInCurrentBatch >= tick.batchSize /\ tick.i < n - 1
         emailDelay == IF break THEN batchBreakDuration ELSE d
         selectedSmtp == tick.smtpAccounts[1] IN
     /\ break => d = tick.delayMin
     /\ tick' = [tick EXCEPT
          !.jobs = Append(@, [emailLogId |-> tick.i + 1,
                              recipientId |-> tick.unprocessedRecipients[tick.i + 1],
                              smtpAccountId |-> selectedSmtp,
                              delay |-> tick.currentDelay + emailDelay]),
          !.currentDelay = @ + emailDelay,
          !.emailsInCurrentBatch = IF break THEN 0 ELSE @ + 1,
          !.i = @ + 1,
          !.pc = IF tick.i + 1 = n THEN "done" ELSE "loop"]
  /\ UNCHANGED <<poolVars, restVarsButTick>>

TickNext ==
  \/ \E accs \in TickAccountLists, dmin \in 1..MaxDelay, dmax \in 1..MaxDelay,
        n \in 1..MaxTickRecipients, b \in 1..MaxBatchSize :
        processCampaignPacing(accs, dmin, dmax, n, b)
  \/ \E d \in 1..MaxDelay : processCampaignLoop(d)

TickSpec == Init /\ [][TickNext]_vars

\* C34: the SMTP account recorded on the k-th claimed recipient's EmailLog (k from 0)
\* is the (k mod n)-th of the n active accounts.
RoundRobinBySequence ==
  \A k \in 1..Len(tick.jobs) :
    tick.jobs[k].smtpAccountId = tick.smtpAccounts[((k - 1) % Len(tick.smtpAccounts)) + 1]

\* The delay of the k-th job of the tick over the delay of the one before it
Gap(k) == tick.jobs[k].delay - (IF k = 1 THEN 0 ELSE tick.jobs[k - 1].delay)

\* The k-th job comes after exactly batchSize regular messages and is not the last
AfterFullBatch(k) ==
  /\ k < Len(tick.unprocessedRecipients)
  /\ k > tick.batchSize
  /\ \A m \in (k - tick.batchSize)..(k - 1) : Gap(m) # batchBreakDuration
  /\ k - tick.batchSize - 1 >= 1 => Gap(k - tick.batchSize - 1) = batchBreakDuration

officeHoursStart == 9
officeHoursEnd == 17

\* isOfficeHours for a given hour of the day
isOfficeHoursAt(hour) == hour >= officeHoursStart /\ hour < officeHoursEnd

\* "Skip weekends": while (getDay() === 0 || getDay() === 6) setDate(getDate() + 1)
RECURSIVE skipWeekends(_, _)
skipWeekends(day, daysAhead) ==
  IF (day + daysAhead) % 7 \in {0, 6} THEN skipWeekends(day, daysAhead + 1) ELSE daysAhead

\* getNextOfficeHour: officeHoursStart:00 of today, of tomorrow when the hour is at or
\* past officeHoursEnd, then moved past Saturday and Sunday
getNextOfficeHour(now) ==
  [daysAhead |-> skipWeekends(now.day, IF now.hour >= officeHoursEnd THEN 1 ELSE 0),
   hour |-> officeHoursStart]

\* An hour passes
ClockHour ==
  /\ wallClock' = [day |-> IF wallClock.hour = 23 THEN (wallClock.day + 1) % 7 ELSE wallClock.day,
                   hour |-> (wallClock.hour + 1) % 24,
                   nextOfficeHour |-> NoDate]
  /\ UNCHANGED <<poolVars, tick, restVarsButClock>>

\* sendEmail's office-hours branch computes the instant to reschedule to
sendEmailReschedule ==
  /\ ~isOfficeHoursAt(wallClock.hour)
  /\ wallClock.nextOfficeHour = NoDate
  /\ wallClock' = [wallClock EXCEPT !.nextOfficeHour = getNextOfficeHour(wallClock)]
  /\ UNCHANGED <<poolVars, tick, restVarsButClock>>

ClockNext == ClockHour \/ sendEmailReschedule

ClockSpec == Init /\ [][ClockNext]_vars

\* C36: the instant a send outside office hours is rescheduled to is officeHoursStart:00
\* of the earliest office window that begins after now (today's before the window,
\* tomorrow's after it), on whatever day of the week that is.
RescheduledToEarliestWindow ==
  wallClock.nextOfficeHour # NoDate =>
    wallClock.nextOfficeHour =
      [daysAhead |-> IF wallClock.hour < officeHoursStart THEN 0 ELSE 1,
       hour |-> officeHoursStart]

\* ===================================================================
\* Template rendering (EmailService.renderTemplate).  A text is a sequence of pieces,
\* each a {{identifier}} token or plain text.
\* ===================================================================
MaxTemplateLen == 2

Tokens == {"{{firstName}}", "{{company}}", "{{nickname}}"}
Pieces == Tokens \cup {"Hi "}
Texts == UNION {[1..n -> Pieces] : n \in 0..MaxTemplateLen}

\* Recipients: with or without a first name, with or without company in customData
Recipients ==
  [firstName : {"Ada", ""}, customData : {{}, {"company"}}]

\* Object.entries(variables): the built-ins, ...customData, unsubscribe_url, as the
\* tokens they are looked for under, with String(value || '')
variables(recipient) ==
  [k \in {"{{firstName}}"} \cup {"{{" \o c \o "}}" : c \in recipient.customData} |->
     IF k = "{{firstName}}" THEN recipient.firstName ELSE "X"]

\* The for loop of text.replace(regex, String(value || '')) over the variables: every
\* occurrence of a token of the map becomes its value, everything else stays
replaceVariables(text, recipient) ==
  [p \in 1..Len(text) |->
     IF text[p] \in DOMAIN variables(recipient) THEN variables(recipient)[text[p]]
     ELSE text[p]]

\* sendEmail's findUnique with the campaign's template and the recipient included
sendEmailInclude(template, recipient) ==
  /\ mail.pc = "idle"
  /\ mail' = [NoMail EXCEPT !.pc = "loaded", !.template = template, !.recipient = recipient]
  /\ UNCHANGED <<poolVars, tick, wallClock, restVarsButMail>>

\* renderTemplate(emailLog.campaign.template, emailLog.recipient)
renderTemplate ==
  /\ mail.pc = "loaded"
  /\ mail' = [mail EXCEPT !.pc = "rendered",
                          !.subject = replaceVariables(mail.template.subject, mail.recipient),
                          !.htmlBody = replaceVariables(mail.template.htmlBody, mail.recipient)]
  /\ UNCHANGED <<poolVars, tick, wallClock, restVarsButMail>>

RenderNext ==
  \/ \E subject \in Texts, htmlBody \in Texts, recipient \in Recipients :
        sendEmailInclude([subject |-> subject, htmlBody |-> htmlBody], recipient)
  \/ renderTemplate

RenderSpec == Init /\ [][RenderNext]_vars

\* C38: the rendered subject and body contain no {{identifier}} token: a token that
\* resolves to nothing is replaced by the empty string like any other.
RenderedHasNoToken ==
  mail.pc = "rendered" =>
    /\ \A p \in 1..Len(mail.subject) : mail.subject[p] \notin Tokens
    /\ \A p \in 1..Len(mail.htmlBody) : mail.htmlBody[p] \notin Tokens

\* ===================================================================
\* The connection pool: closed transporters and the metrics
\* ===================================================================

\* C39: getTransporter never returns a transporter the pool has closed: under every
\* interleaving of a polling call, releases and idle reaping (before shutdown), a
\* transporter that is handed out has not been closed and is in its account's array.
HandedOutIsOpenAndPooled ==
  [][closeAllCalls = 0 =>
       \A t \in 1..Len(transporters) :
         transporters'[t].holders > transporters[t].holders =>
           /\ transporters'[t].closed = 0
           /\ t \in InArray(pools'[transporters[t].smtpAccountId])]_vars

\* C37: every getTransporter call that returned is counted as exactly one pool hit or
\* one pool miss: when no call is waiting, poolHits + poolMisses is the number of calls
\* made, those that first had to wait included.
EachAcquireCountedOnce ==
  waiters = EmptyBag => metrics.poolHits + metrics.poolMisses = metrics.calls

\* The entries of the installed arrays that are in use
PooledInUse ==
  {t \in 1..Len(transporters) :
     t \in InArray(pools[transporters[t].smtpAccountId]) /\ transporters[t].inUse}

RECURSIVE TotalPoolSize(_)
TotalPoolSize(accounts) ==
  IF accounts = {} THEN 0
  ELSE LET a == CHOOSE x \in accounts : TRUE IN Len(pools[a]) + TotalPoolSize(accounts \ {a})

\* C40: after any sequence of getTransporter, releaseTransporter (also of a transporter
\* that is not checked out) and idle reaping, activeConnections is the number of pooled
\* transporters in use and is not negative, and totalConnections is the total pool size.
MetricsMatchPools ==
  closeAllCalls = 0 =>
    /\ metrics.activeConnections = Cardinality(PooledInUse)
    /\ metrics.activeConnections >= 0
    /\ metrics.totalConnections = TotalPoolSize(AccountIds)

=============================================================================
